---- MODULE Spec2Model ----
(***************************************************************************)
(* State-machine model of the parking lot of src/parking_lot/parking.py:   *)
(* Zone, Vehicle and Lot with add_vehicle, remove_vehicle and              *)
(* vehicle_availability (specification Spec, and SpecSparse for lots that  *)
(* lack a zone a van can use), of the loop of                              *)
(* Lot.find_adjacent_free_spots taken one iteration at a time on any       *)
(* ascending free list (specification SpecFind), and of the code generator *)
(* of src/four_billion_numbers/Generator.py (specification SpecGen), and   *)
(* of the Lot of src/parking_lot/zones.py, the variant with four fixed     *)
(* zones (specification SpecZones), alone and side by side with the Lot of *)
(* parking.py under the same calls (specification SpecPair).               *)
(*                                                                         *)
(* Sizes are kept in tenths (0.3 -> 3, 0.8 -> 8, 1.0 -> 10, 1.5 -> 15,     *)
(* 3.0 -> 30); for these values the float quotient rounded up by math.ceil *)
(* equals the integer ceiling used here.  Spot indices and free-list       *)
(* positions are 0-based as in the source; a TLA+ sequence s holds the     *)
(* Python list element s[i] at position i+1.                               *)
(***************************************************************************)
EXTENDS Integers, Sequences, FiniteSets, TLC

\* Number of Vehicle objects the callers create in one behaviour.
MaxVehicles == 3

\* zone.spots[i] is None
None == 0

VehicleType == {"CYCLE", "CAR", "VAN"}

ZoneType == {"CYCLE", "COMPACT", "REGULAR", "LARGE"}

\* Vehicle.__init__: self.size per type (tenths)
VehicleSize(type_) ==
    CASE type_ = "CYCLE" -> 3
      [] type_ = "CAR"   -> 8
      [] type_ = "VAN"   -> 30

\* Vehicle.__init__: self.priority per type
Priority(type_) ==
    CASE type_ = "CYCLE" -> <<"CYCLE", "COMPACT", "REGULAR", "LARGE">>
      [] type_ = "CAR"   -> <<"COMPACT", "REGULAR", "LARGE">>
      [] type_ = "VAN"   -> <<"LARGE", "REGULAR">>

\* Zone.__init__
Zone(type_, size, num_spots, adjacent) ==
    [type_    |-> type_,
     size     |-> size,
     adjacent |-> adjacent,
     spots    |-> [x \in 0..(num_spots - 1) |-> None],
     free     |-> [x \in 1..num_spots |-> x - 1]]

\* The zone lists handed to Lot(zones=...): the layout of __main__ scaled
\* down, a lot with two spanning REGULAR zones, a lot whose REGULAR zones
\* differ in spot size and in the adjacent flag, and a lot of one spanning
\* zone whose spot size does not divide the size of a van.
ZoneLists ==
    { << Zone("CYCLE", 3, 1, FALSE), Zone("COMPACT", 8, 1, FALSE),
         Zone("REGULAR", 10, 6, TRUE), Zone("LARGE", 30, 1, FALSE) >>,
      << Zone("REGULAR", 10, 3, TRUE), Zone("REGULAR", 10, 3, TRUE) >>,
      << Zone("REGULAR", 15, 5, TRUE), Zone("REGULAR", 10, 3, FALSE),
         Zone("LARGE", 30, 1, FALSE) >>,
      << Zone("REGULAR", 8, 5, TRUE) >> }

\* Zone lists in which a van cannot use the first REGULAR zone or finds none:
\* a first spanning zone that is too short, a first REGULAR zone that does
\* not support spanning, no REGULAR zone, and the empty list.
SparseZoneLists ==
    { << Zone("REGULAR", 10, 1, TRUE), Zone("REGULAR", 10, 3, TRUE) >>,
      << Zone("REGULAR", 10, 2, FALSE), Zone("REGULAR", 10, 3, TRUE) >>,
      << Zone("COMPACT", 8, 1, FALSE), Zone("LARGE", 30, 1, FALSE) >>,
      << >> }

VARIABLES
    zones,      \* Lot.zones, flattened: the zones in construction order
    count,      \* Lot.count
    vehicles,   \* keys of Lot.vehicles (ids of the vehicles currently parked)
    objs,       \* every Vehicle object created so far: objs[id] = [type_, location]
    last,       \* the most recent call on the lot and what it returned
    before,     \* zones, count and vehicles as they were when the most recent add_vehicle began
    scan,       \* find_adjacent_free_spots in progress: its arguments and locals
    placed,     \* what the most recent park_adjacent on the scanned free list did
    gen,        \* the Generator object: its fields
    file,       \* the npz file of the Generator: <<>> when there is none
    emitted,    \* the codes generate_code has returned, and how they were produced
    zlot,       \* the Lot of zones.py: cycles, compact, regular, large, parked
    zobjs,      \* zones.py: the type of every Vehicle object that was parked, by id
    zlast       \* zones.py: the most recent call, what it returned, the Lot before it

lotVars == <<zones, count, vehicles, objs, last, before>>

findVars == <<scan, placed>>

genVars == <<gen, file, emitted>>

zonesVars == <<zlot, zobjs, zlast>>

vars == <<zones, count, vehicles, objs, last, before, scan, placed, gen, file, emitted,
          zlot, zobjs, zlast>>

\* Each specification runs one of the programs: the variables of the others
\* stay as they are here
NoLot ==
    /\ zones = <<>>
    /\ count = [t \in VehicleType |-> 0]
    /\ vehicles = {}
    /\ objs = <<>>
    /\ last = [op |-> "init", type_ |-> "none", id_ |-> 0, result |-> 0,
               returned |-> 0, error |-> "none", follows |-> 0]
    /\ before = [zones |-> <<>>, count |-> count, vehicles |-> {}]

NoFind ==
    /\ scan = [pc |-> "unused"]
    /\ placed = [called |-> FALSE]

NoGen ==
    /\ gen = [pc |-> "unused"]
    /\ file = <<>>
    /\ emitted = [calls |-> 0]

NoZones ==
    /\ zlot = [pc |-> "unused"]
    /\ zobjs = <<>>
    /\ zlast = [op |-> "unused"]

----------------------------------------------------------------------------
\* Lot.zones[zone_type.name]: positions (in zones) of the zones of one type,
\* in construction order
RECURSIVE ZonesOfFrom(_, _, _)
ZonesOfFrom(zs, zone_type, k) ==
    IF k > Len(zs) THEN <<>>
    ELSE (IF zs[k].type_ = zone_type THEN <<k>> ELSE <<>>)
         \o ZonesOfFrom(zs, zone_type, k + 1)

ZonesOf(zs, zone_type) == ZonesOfFrom(zs, zone_type, 1)

\* math.ceil(a / b) for positive a, b
Ceil(a, b) == (a + b - 1) \div b

\* list.pop(i)
Pop(list, i) == [x \in 1..(Len(list) - 1) |-> IF x <= i THEN list[x] ELSE list[x + 1]]

\* bisect.bisect_right(a, x): the binary search of the bisect module
RECURSIVE BisectRight(_, _, _, _)
BisectRight(a, x, lo, hi) ==
    IF lo < hi
    THEN LET mid == (lo + hi) \div 2
         IN IF x < a[mid + 1] THEN BisectRight(a, x, lo, mid)
                              ELSE BisectRight(a, x, mid + 1, hi)
    ELSE lo

\* insort replaced by list.append: the freed index goes to the end
insort_append(a, x) == Append(a, x)

\* bisect.insort(a, x)
Insort(a, x) ==
    LET lo == BisectRight(a, x, 0, Len(a))
    IN [i \in 1..(Len(a) + 1) |->
            IF i <= lo THEN a[i] ELSE IF i = lo + 1 THEN x ELSE a[i - 1]]

----------------------------------------------------------------------------
\* Lot.find_adjacent_free_spots: the while loop
RECURSIVE FindLoop(_, _, _, _, _)
FindLoop(free, num_spots, first, index, free_indexes) ==
    LET last_index == Len(free) - 1
        end == last_index - (num_spots - 1)
    IN IF index <= end
       THEN LET first_spot == free[index + 1]
                last_spot  == free[index + num_spots]
                difference_between_spots == last_spot - first_spot
                all_spots_adjacent == (difference_between_spots + 1) = num_spots
            IN IF ~all_spots_adjacent
               THEN FindLoop(free, num_spots, first, index + 1, free_indexes)
               ELSE IF first
                    THEN Append(free_indexes, index)
                    ELSE FindLoop(free, num_spots, first,
                                  index + (num_spots + 1),
                                  Append(free_indexes, index))
       ELSE free_indexes

\* the search started at the second entry of the free list
find_adjacent_from_second(free, num_spots, first) ==
    FindLoop(free, num_spots, first, 1, <<>>)

\* Lot.find_adjacent_free_spots
find_adjacent_free_spots(free, num_spots, first) ==
    FindLoop(free, num_spots, first, 0, <<>>)

\* park_single without the pop: the spot taken stays in the free list
park_single_keeps_free(zs, cnt, k, zone_index, id_, type_) ==
    LET zone == zs[k]
        spot_index == zone.free[1]
    IN [zones |-> [zs EXCEPT ![k].spots[spot_index] = id_],
        count |-> [cnt EXCEPT ![type_] = @ + 1],
        location |-> <<zone.type_, zone_index, <<spot_index>> >>]

\* park_single with pop() for pop(0): the last entry of the free list is taken
park_single_takes_last(zs, cnt, k, zone_index, id_, type_) ==
    LET zone == zs[k]
        spot_index == zone.free[Len(zone.free)]
    IN [zones |-> [zs EXCEPT ![k].free = Pop(zone.free, Len(zone.free) - 1),
                             ![k].spots[spot_index] = id_],
        count |-> [cnt EXCEPT ![type_] = @ + 1],
        location |-> <<zone.type_, zone_index, <<spot_index>> >>]

\* park_single taking the spot above as well when it is the next free one
park_single_with_neighbour(zs, cnt, k, zone_index, id_, type_) ==
    LET zone == zs[k]
        spot_index == zone.free[1]
    IN IF Len(zone.free) > 1 /\ zone.free[2] = spot_index + 1
       THEN [zones |-> [zs EXCEPT ![k].free = Pop(Pop(zone.free, 0), 0),
                                  ![k].spots[spot_index] = id_,
                                  ![k].spots[spot_index + 1] = id_],
             count |-> [cnt EXCEPT ![type_] = @ + 1],
             location |-> <<zone.type_, zone_index, <<spot_index, spot_index + 1>> >>]
       ELSE [zones |-> [zs EXCEPT ![k].free = Pop(zone.free, 0),
                                  ![k].spots[spot_index] = id_],
             count |-> [cnt EXCEPT ![type_] = @ + 1],
             location |-> <<zone.type_, zone_index, <<spot_index>> >>]

\* Lot.park_single on zone number k of zones (entry zone_index of its type)
park_single(zs, cnt, k, zone_index, id_, type_) ==
    LET zone == zs[k]
        spot_index == zone.free[1]
    IN [zones |-> [zs EXCEPT ![k].free = Pop(zone.free, 0),
                             ![k].spots[spot_index] = id_],
        count |-> [cnt EXCEPT ![type_] = @ + 1],
        location |-> <<zone.type_, zone_index, <<spot_index>> >>]

\* Lot.park_adjacent: the for loop that pops num_adjacent entries at one
\* position of the free list
RECURSIVE OccupyLoop(_, _, _, _, _)
OccupyLoop(zone, id_, first_spot_index_to_park, todo, occupied_spots) ==
    IF todo = 0 THEN [zone |-> zone, occupied_spots |-> occupied_spots]
    ELSE LET spot_index == zone.free[first_spot_index_to_park + 1]
         IN OccupyLoop([zone EXCEPT !.free = Pop(zone.free, first_spot_index_to_park),
                                    !.spots[spot_index] = id_],
                       id_, first_spot_index_to_park, todo - 1,
                       Append(occupied_spots, spot_index))

\* park_adjacent taking the free-list position for the spot index
park_adjacent_by_position(zs, cnt, k, zone_index, id_, type_) ==
    LET zone == zs[k]
        num_adjacent == Ceil(VehicleSize(type_), zone.size)
        adjacent_spots_to_park == find_adjacent_free_spots(zone.free, num_adjacent, TRUE)
    IN IF adjacent_spots_to_park # <<>>
       THEN LET p == adjacent_spots_to_park[1]
                r == OccupyLoop(zone, id_, p, num_adjacent, <<>>)
            IN [zones |-> [zs EXCEPT ![k].free = r.zone.free,
                                     ![k].spots = [x \in DOMAIN zone.spots |->
                                                     IF x \in p..(p + num_adjacent - 1)
                                                     THEN id_ ELSE zone.spots[x]]],
                count |-> [cnt EXCEPT ![type_] = @ + num_adjacent],
                location |-> <<zone.type_, zone_index,
                               [i \in 1..num_adjacent |-> p + i - 1]>>]
       ELSE [zones |-> zs, count |-> cnt, location |-> <<>>]

\* park_adjacent counting the vehicle before it knows that a run exists
park_adjacent_counts_first(zs, cnt, k, zone_index, id_, type_) ==
    LET zone == zs[k]
        num_adjacent == Ceil(VehicleSize(type_), zone.size)
        adjacent_spots_to_park == find_adjacent_free_spots(zone.free, num_adjacent, TRUE)
        counted == [cnt EXCEPT ![type_] = @ + num_adjacent]
    IN IF adjacent_spots_to_park # <<>>
       THEN LET r == OccupyLoop(zone, id_, adjacent_spots_to_park[1], num_adjacent, <<>>)
            IN [zones |-> [zs EXCEPT ![k] = r.zone],
                count |-> counted,
                location |-> <<zone.type_, zone_index, r.occupied_spots>>]
       ELSE [zones |-> zs, count |-> counted, location |-> <<>>]

\* park_adjacent with the quotient rounded down
park_adjacent_rounds_down(zs, cnt, k, zone_index, id_, type_) ==
    LET zone == zs[k]
        num_adjacent == VehicleSize(type_) \div zone.size
        adjacent_spots_to_park == find_adjacent_free_spots(zone.free, num_adjacent, TRUE)
    IN IF adjacent_spots_to_park # <<>>
       THEN LET r == OccupyLoop(zone, id_, adjacent_spots_to_park[1], num_adjacent, <<>>)
            IN [zones |-> [zs EXCEPT ![k] = r.zone],
                count |-> [cnt EXCEPT ![type_] = @ + num_adjacent],
                location |-> <<zone.type_, zone_index, r.occupied_spots>>]
       ELSE [zones |-> zs, count |-> cnt, location |-> <<>>]

\* Lot.park_adjacent
park_adjacent(zs, cnt, k, zone_index, id_, type_) ==
    LET zone == zs[k]
        num_adjacent == Ceil(VehicleSize(type_), zone.size)
        adjacent_spots_to_park == find_adjacent_free_spots(zone.free, num_adjacent, TRUE)
    IN IF adjacent_spots_to_park # <<>>
       THEN LET r == OccupyLoop(zone, id_, adjacent_spots_to_park[1], num_adjacent, <<>>)
            IN [zones |-> [zs EXCEPT ![k] = r.zone],
                count |-> [cnt EXCEPT ![type_] = @ + num_adjacent],
                location |-> <<zone.type_, zone_index, r.occupied_spots>>]
       ELSE [zones |-> zs, count |-> cnt, location |-> <<>>]

\* The (zone_type, zone_index) pairs in the order the two nested for loops of
\* park_first_available visit them; each entry also carries the zone's
\* position in zones.
RECURSIVE SearchOrderFrom(_, _, _)
SearchOrderFrom(zs, priority, p) ==
    IF p > Len(priority) THEN <<>>
    ELSE LET ks == ZonesOf(zs, priority[p])
         IN [i \in 1..Len(ks) |-> [zone_type |-> priority[p], zone_index |-> i - 1, k |-> ks[i]]]
            \o SearchOrderFrom(zs, priority, p + 1)

SearchOrder(zs, type_) == SearchOrderFrom(zs, Priority(type_), 1)

\* Lot.park_first_available: the loops; a break of the inner loop with
\* parked = True also leaves the outer one
RECURSIVE ParkLoop(_, _, _, _, _, _)
ParkLoop(zs, cnt, id_, type_, order, i) ==
    IF i > Len(order) THEN [zones |-> zs, count |-> cnt, location |-> <<>>]
    ELSE LET zone == zs[order[i].k]
             free_spots_exist == Len(zone.free)
             vehicle_fits_in_single_spot == VehicleSize(type_) <= zone.size
         IN IF free_spots_exist = 0
            THEN ParkLoop(zs, cnt, id_, type_, order, i + 1)
            ELSE IF vehicle_fits_in_single_spot
                 THEN park_single(zs, cnt, order[i].k, order[i].zone_index, id_, type_)
                 ELSE IF zone.adjacent
                      THEN park_adjacent(zs, cnt, order[i].k, order[i].zone_index, id_, type_)
                      ELSE ParkLoop(zs, cnt, id_, type_, order, i + 1)

\* park_first_available walking the zones from the least preferred one
park_last_available(zs, cnt, id_, type_) ==
    LET order == SearchOrder(zs, type_)
    IN ParkLoop(zs, cnt, id_, type_,
                [i \in 1..Len(order) |-> order[Len(order) + 1 - i]], 1)

\* park_first_available without the two tests on the zone: the vehicle takes
\* a spot of the first zone of its search order that has a free one
park_first_zone_with_free_spot(zs, cnt, id_, type_) ==
    LET order == SearchOrder(zs, type_)
        with_free == {i \in 1..Len(order) : Len(zs[order[i].k].free) > 0}
    IN IF with_free = {}
       THEN [zones |-> zs, count |-> cnt, location |-> <<>>]
       ELSE LET i == CHOOSE x \in with_free : \A y \in with_free : x <= y
            IN park_single(zs, cnt, order[i].k, order[i].zone_index, id_, type_)

\* Lot.park_first_available
park_first_available(zs, cnt, id_, type_) ==
    ParkLoop(zs, cnt, id_, type_, SearchOrder(zs, type_), 1)

----------------------------------------------------------------------------
\* Lot.__init__ on one of the zone lists; no call has been made yet
Init ==
    /\ zones \in ZoneLists
    /\ count = [t \in VehicleType |-> 0]
    /\ vehicles = {}
    /\ objs = <<>>
    /\ last = [op |-> "init", type_ |-> "none", id_ |-> 0, result |-> 0,
               returned |-> 0, error |-> "none", follows |-> 0]
    /\ before = [zones |-> zones, count |-> count, vehicles |-> vehicles]
    /\ NoFind
    /\ NoGen
    /\ NoZones

\* Lot.add_vehicle(type_): a new Vehicle object (fresh uuid) is created,
\* park_first_available runs, and the vehicle is kept in Lot.vehicles when
\* it got a location; the Vehicle object is returned either way (returned
\* holds its id, None standing for a returned None); follows is the id of the
\* vehicle of the same type the call before removed from the lot, if any
Lot_add_vehicle(type_) ==
    /\ Len(objs) < MaxVehicles
    /\ LET id_ == Len(objs) + 1
           r == park_first_available(zones, count, id_, type_)
       IN /\ zones' = r.zones
          /\ count' = r.count
          /\ objs' = Append(objs, [type_ |-> type_, location |-> r.location])
          /\ vehicles' = IF r.location = <<>> THEN vehicles ELSE vehicles \cup {id_}
          /\ last' = [op |-> "add", type_ |-> type_, id_ |-> id_,
                      result |-> IF r.location = <<>> THEN 0 ELSE 1,
                      returned |-> id_, error |-> "none",
                      follows |-> IF last.op = "remove" /\ last.result = 1
                                     /\ last.type_ = type_
                                  THEN last.id_ ELSE 0]
          /\ before' = [zones |-> zones, count |-> count, vehicles |-> vehicles]

\* add_vehicle called on the Lot of parking.py alone
add_vehicle(type_) ==
    /\ Lot_add_vehicle(type_)
    /\ UNCHANGED <<findVars, genVars, zonesVars>>

\* Lot.remove_vehicle: the for loop over spot_indices
RECURSIVE ReleaseLoop(_, _, _)
ReleaseLoop(zone, spot_indices, i) ==
    IF i > Len(spot_indices) THEN zone
    ELSE ReleaseLoop([zone EXCEPT !.spots[spot_indices[i]] = None,
                                  !.free = Insort(zone.free, spot_indices[i])],
                     spot_indices, i + 1)

\* remove_vehicle without the membership test on Lot.vehicles: it trusts the
\* location the Vehicle object carries
remove_unchecked(zs, cnt, vs, vehicle, id_) ==
    IF vehicle.location # <<>>
    THEN LET location == vehicle.location
             k == ZonesOf(zs, location[1])[location[2] + 1]
         IN [zones |-> [zs EXCEPT ![k] = ReleaseLoop(zs[k], location[3], 1)],
             count |-> [cnt EXCEPT ![vehicle.type_] = @ - 1],
             vehicles |-> vs \ {id_}]
    ELSE [zones |-> zs, count |-> cnt, vehicles |-> vs]

\* remove_vehicle giving back only the first spot of the location
remove_first_spot_only(zs, cnt, vs, vehicle, id_) ==
    IF id_ \in vs
    THEN LET location == vehicle.location
             k == ZonesOf(zs, location[1])[location[2] + 1]
         IN [zones |-> [zs EXCEPT ![k] = ReleaseLoop(zs[k], <<location[3][1]>>, 1)],
             count |-> [cnt EXCEPT ![vehicle.type_] = @ - 1],
             vehicles |-> vs \ {id_}]
    ELSE [zones |-> zs, count |-> cnt, vehicles |-> vs]

\* Lot.remove_vehicle(vehicle) as a function of the lot
remove_from_lot(zs, cnt, vs, vehicle, id_) ==
    IF id_ \in vs
    THEN LET location == vehicle.location
             k == ZonesOf(zs, location[1])[location[2] + 1]
         IN [zones |-> [zs EXCEPT ![k] = ReleaseLoop(zs[k], location[3], 1)],
             count |-> [cnt EXCEPT ![vehicle.type_] = @ - 1],
             vehicles |-> vs \ {id_}]
    ELSE [zones |-> zs, count |-> cnt, vehicles |-> vs]

\* Lot.remove_vehicle(vehicle), called with any Vehicle object a caller holds
remove_vehicle(id_) ==
    /\ id_ \in 1..Len(objs)
    /\ LET r == remove_from_lot(zones, count, vehicles, objs[id_], id_)
       IN /\ zones' = r.zones
          /\ count' = r.count
          /\ vehicles' = r.vehicles
          /\ last' = [op |-> "remove", type_ |-> objs[id_].type_, id_ |-> id_,
                      result |-> IF id_ \in vehicles THEN 1 ELSE 0,
                      returned |-> None, error |-> "none",
                      follows |-> IF last.op = "add" /\ last.result = 1
                                  THEN last.id_ ELSE 0]
    /\ UNCHANGED <<objs, before, findVars, genVars, zonesVars>>

\* sum of f[i] over a sequence of numbers
RECURSIVE SumSeq(_, _)
SumSeq(f, i) == IF i > Len(f) THEN 0 ELSE f[i] + SumSeq(f, i + 1)

\* vehicle_availability, case CYCLE | CAR: len(zone.free) over every zone of
\* every type of the priority list
free_in_priority(zs, type_) ==
    LET order == SearchOrder(zs, type_)
    IN SumSeq([i \in 1..Len(order) |-> Len(zs[order[i].k].free)], 1)

\* a regular zone counted like a large one, by its free spots
van_in_regular_as_large(zone, num_spots_for_van_in_regular) ==
    Len(zone.free)

\* vehicle_availability, case VAN: what one regular zone adds
van_in_regular(zone, num_spots_for_van_in_regular) ==
    Len(find_adjacent_free_spots(zone.free, num_spots_for_van_in_regular, FALSE))

\* vehicle_availability, case VAN: the number added for each regular zone, in
\* the order of regular_zones; the run length comes from regular_zones[0]
van_regular_counts(zs) ==
    LET regular_zones == ZonesOf(zs, "REGULAR")
        num_spots_for_van_in_regular ==
            Ceil(VehicleSize("VAN"), zs[regular_zones[1]].size)
    IN [i \in 1..Len(regular_zones) |->
            van_in_regular(zs[regular_zones[i]], num_spots_for_van_in_regular)]

\* Lot.vehicle_availability: the number it returns, or the exception it
\* ends in; regular_zones[0] of an empty list raises IndexError
vehicle_availability_of(zs, type_) ==
    IF type_ \in {"CYCLE", "CAR"}
    THEN [error |-> "none", returned |-> free_in_priority(zs, type_)]
    ELSE LET large_zones == ZonesOf(zs, "LARGE")
             in_large == SumSeq([i \in 1..Len(large_zones) |-> Len(zs[large_zones[i]].free)], 1)
         IN IF ZonesOf(zs, "REGULAR") = <<>>
            THEN [error |-> "IndexError", returned |-> None]
            ELSE [error |-> "none",
                  returned |-> in_large + SumSeq(van_regular_counts(zs), 1)]

\* vehicle_availability parking the Vehicle it creates to see whether it fits
vehicle_availability_parks_probe(type_) ==
    /\ LET r == park_first_available(zones, count, MaxVehicles + 1, type_)
       IN /\ zones' = r.zones
          /\ count' = r.count
    /\ last' = [op |-> "avail", type_ |-> type_, id_ |-> 0,
                result |-> vehicle_availability_of(zones, type_).returned,
                returned |-> vehicle_availability_of(zones, type_).returned,
                error |-> vehicle_availability_of(zones, type_).error,
                follows |-> IF last.op = "avail" /\ last.type_ = type_ THEN 1 ELSE 0]
    /\ UNCHANGED <<vehicles, objs, before, findVars, genVars, zonesVars>>

\* Lot.vehicle_availability(type_), returning a number or raising; follows
\* is 1 when the call before was vehicle_availability of the same type
Lot_vehicle_availability(type_) ==
    /\ last' = [op |-> "avail", type_ |-> type_, id_ |-> 0,
                result |-> vehicle_availability_of(zones, type_).returned,
                returned |-> vehicle_availability_of(zones, type_).returned,
                error |-> vehicle_availability_of(zones, type_).error,
                follows |-> IF last.op = "avail" /\ last.type_ = type_ THEN 1 ELSE 0]
    /\ UNCHANGED <<zones, count, vehicles, objs, before>>

\* vehicle_availability called on the Lot of parking.py alone
vehicle_availability(type_) ==
    /\ Lot_vehicle_availability(type_)
    /\ UNCHANGED <<findVars, genVars, zonesVars>>

\* Lot.num_parked_vehicle
num_parked_vehicle(type_) == count[type_]

Next ==
    \/ \E type_ \in VehicleType : add_vehicle(type_)
    \/ \E id_ \in 1..MaxVehicles : remove_vehicle(id_)
    \/ \E type_ \in VehicleType : vehicle_availability(type_)

Spec == Init /\ [][Next]_vars

\* Lot.__init__ on one of the sparse zone lists
InitSparse ==
    /\ zones \in SparseZoneLists
    /\ count = [t \in VehicleType |-> 0]
    /\ vehicles = {}
    /\ objs = <<>>
    /\ last = [op |-> "init", type_ |-> "none", id_ |-> 0, result |-> 0,
               returned |-> 0, error |-> "none", follows |-> 0]
    /\ before = [zones |-> zones, count |-> count, vehicles |-> vehicles]
    /\ NoFind
    /\ NoGen
    /\ NoZones

SpecSparse == InitSparse /\ [][Next]_vars

----------------------------------------------------------------------------
\* Vocabulary of the properties

Range(f) == {f[i] : i \in DOMAIN f}

\* the spots of a zone that hold no vehicle
EmptySpots(zone) == {x \in DOMAIN zone.spots : zone.spots[x] = None}

OccupiedSpots(zone) == {x \in DOMAIN zone.spots : zone.spots[x] # None}

\* position in zs of the zone a location names
ZoneAt(zs, location) == ZonesOf(zs, location[1])[location[2] + 1]

\* a set of free spots holds n consecutive integers
HasRun(F, n) == \E x \in F : \A d \in 0..(n - 1) : x + d \in F

\* the zone can hold a vehicle of the type: a free spot the vehicle fits, or
\* spanning and a run of ceil(vehicle size / spot size) free spots
CanHold(zone, type_) ==
    \/ Len(zone.free) > 0 /\ VehicleSize(type_) <= zone.size
    \/ zone.adjacent /\ HasRun(Range(zone.free), Ceil(VehicleSize(type_), zone.size))

\* the most recent call was add_vehicle and it parked / did not park
JustParked == last.op = "add" /\ objs[last.id_].location # <<>>

JustRejected == last.op = "add" /\ objs[last.id_].location = <<>>

\* C1: every zone's free list has no duplicate and holds exactly the indices
\* of the empty spots, so free entries plus occupied spots make up the zone.
C1_FreeListIsEmptySpots ==
    \A k \in 1..Len(zones) :
        LET zone == zones[k]
        IN /\ \A i, j \in 1..Len(zone.free) : i # j => zone.free[i] # zone.free[j]
           /\ Range(zone.free) = EmptySpots(zone)
           /\ Len(zone.free) + Cardinality(OccupiedSpots(zone))
                = Cardinality(DOMAIN zone.spots)

\* a removal has just given a spot back to a zone that still holds a vehicle
C1_Witness ==
    /\ last.op = "remove" /\ last.result = 1
    /\ \E k \in 1..Len(zones) :
          /\ OccupiedSpots(zones[k]) # {}
          /\ objs[last.id_].location[3][1] \in Range(zones[k].free)
          /\ k = ZoneAt(zones, objs[last.id_].location)

\* C2 (as claimed): num_parked_vehicle(t) is the number of vehicles of type t
\* currently parked.
C2_CountIsParked ==
    \A t \in VehicleType :
        num_parked_vehicle(t) = Cardinality({id_ \in vehicles : objs[id_].type_ = t})

\* C3 (as claimed): add_vehicle ends without a placement exactly when no
\* zone of the search order could hold the vehicle when the call began.
C3_RejectedIffNoZoneCanHold ==
    last.op = "add" =>
        LET order == SearchOrder(before.zones, last.type_)
        IN (objs[last.id_].location = <<>>)
             <=> ~ \E i \in 1..Len(order) : CanHold(before.zones[order[i].k], last.type_)

\* C4: when add_vehicle parks a vehicle, every spot of its location was empty
\* and in the free list when the call began and holds the vehicle now, and
\* every other spot of every zone holds what it held.
C4_NoDoublePlacement ==
    JustParked =>
        LET location == objs[last.id_].location
            k == ZoneAt(zones, location)
            taken == Range(location[3])
        IN /\ \A x \in taken :
                 /\ before.zones[k].spots[x] = None
                 /\ x \in Range(before.zones[k].free)
                 /\ zones[k].spots[x] = last.id_
           /\ \A j \in 1..Len(zones) : \A x \in DOMAIN zones[j].spots :
                 (j # k \/ x \notin taken) => zones[j].spots[x] = before.zones[j].spots[x]

\* a van has just been parked across several spots of a zone that already
\* held another vehicle at a lower spot
C4_Witness ==
    /\ JustParked
    /\ Len(objs[last.id_].location[3]) > 1
    /\ LET k == ZoneAt(zones, objs[last.id_].location)
       IN \E x \in OccupiedSpots(before.zones[k]) : x < objs[last.id_].location[3][1]

\* C5: when add_vehicle finds no placement the lot is as it was: zones (spots
\* and free lists), count and vehicles, and the vehicle is not in vehicles.
C5_RejectionChangesNothing ==
    JustRejected =>
        /\ zones = before.zones
        /\ count = before.count
        /\ vehicles = before.vehicles
        /\ last.id_ \notin vehicles

\* the rejected search went into a spanning zone with free spots and no run
C5_Witness ==
    /\ JustRejected
    /\ \E k \in 1..Len(zones) :
          /\ zones[k].type_ \in Range(Priority(last.type_))
          /\ zones[k].adjacent
          /\ Len(before.zones[k].free) > 0
          /\ VehicleSize(last.type_) > zones[k].size
          /\ ~ HasRun(Range(before.zones[k].free),
                      Ceil(VehicleSize(last.type_), zones[k].size))
\* C6: a successful add_vehicle immediately followed by remove_vehicle of the
\* vehicle it returned puts every zone's free list (same order) and spots back
\* to what they were before the add_vehicle.
C6_AddThenRemoveRestores ==
    (last.op = "remove" /\ last.follows = last.id_) => zones = before.zones

\* the vehicle added and removed again was a van across several spots, in a
\* zone that held another vehicle meanwhile
C6_Witness ==
    /\ last.op = "remove" /\ last.follows = last.id_
    /\ Len(objs[last.id_].location[3]) > 1
    /\ OccupiedSpots(zones[ZoneAt(zones, objs[last.id_].location)]) # {}

\* C7: remove_vehicle of a vehicle that is not parked (rejected, or removed
\* before) changes no zone, no count and not the vehicles map.
C7_RemoveOfUnparkedChangesNothing ==
    [][ (last'.op = "remove" /\ last'.id_ \notin vehicles)
            => /\ zones' = zones
               /\ count' = count
               /\ vehicles' = vehicles
               /\ objs' = objs ]_vars

\* remove_vehicle was called with a removed vehicle whose old spot has since
\* been given to another vehicle
C7_Witness ==
    /\ last.op = "remove" /\ last.result = 0
    /\ objs[last.id_].location # <<>>
    /\ LET location == objs[last.id_].location
       IN \E x \in Range(location[3]) :
             zones[ZoneAt(zones, location)].spots[x] \notin {None, last.id_}

\* C8: every zone's free list is strictly ascending.
C8_FreeListAscending ==
    \A k \in 1..Len(zones) :
        \A i, j \in 1..Len(zones[k].free) :
            i < j => zones[k].free[i] < zones[k].free[j]

\* a vehicle that is not the newest one was removed and its spot went back
\* in front of higher free spots while a lower spot is free too
C8_Witness ==
    /\ last.op = "remove" /\ last.result = 1
    /\ last.id_ < Len(objs)
    /\ LET free == zones[ZoneAt(zones, objs[last.id_].location)].free
           x == objs[last.id_].location[3][1]
       IN \E i \in 2..(Len(free) - 1) : free[i] = x

\* C9: when add_vehicle parks a vehicle in a zone, no zone earlier in the
\* search order (earlier class of the priority list, or same class and
\* earlier in construction order) could hold the vehicle when the call began.
C9_FirstZoneThatCanHold ==
    JustParked =>
        LET order == SearchOrder(before.zones, last.type_)
            k == ZoneAt(zones, objs[last.id_].location)
        IN \A i, j \in 1..Len(order) :
              (order[j].k = k /\ i < j) => ~ CanHold(before.zones[order[i].k], last.type_)

\* the vehicle went to a later class of its priority list because the zone
\* of the first class was full, the later zone being partly free
C9_Witness ==
    /\ JustParked
    /\ LET order == SearchOrder(before.zones, last.type_)
           k == ZoneAt(zones, objs[last.id_].location)
       IN /\ order[1].k # k
          /\ before.zones[order[1].k].free = <<>>
          /\ zones[order[1].k].type_ # zones[k].type_
          /\ OccupiedSpots(before.zones[k]) # {}
\* the first spots of the maximal blocks of consecutive spots of F
BlockStarts(F) == {x \in F : (x - 1) \notin F}

\* length of the maximal block of F that starts at x
BlockLength(F, x) ==
    CHOOSE L \in 1..Cardinality(F) :
        /\ \A d \in 0..(L - 1) : x + d \in F
        /\ (x + L) \notin F

\* the largest number of disjoint runs of n consecutive spots within F: the
\* sum over the maximal blocks of floor(block length / n)
RECURSIVE SumOfFloors(_, _, _)
SumOfFloors(F, starts, n) ==
    IF starts = {} THEN 0
    ELSE LET x == CHOOSE y \in starts : TRUE
         IN (BlockLength(F, x) \div n) + SumOfFloors(F, starts \ {x}, n)

MaxPlaceable(F, n) == SumOfFloors(F, BlockStarts(F), n)

\* C10 (as claimed): for a van and a spanning REGULAR zone where it needs
\* more than one spot, the number vehicle_availability adds for the zone is
\* the largest number of vans that could be placed in the zone at once.
C10_CountIsMaxPlaceable ==
    (last.op = "avail" /\ last.type_ = "VAN") =>
        LET regular_zones == ZonesOf(zones, "REGULAR")
        IN \A i \in 1..Len(regular_zones) :
              LET zone == zones[regular_zones[i]]
                  n == Ceil(VehicleSize("VAN"), zone.size)
              IN (zone.adjacent /\ n > 1)
                    => van_regular_counts(zones)[i] = MaxPlaceable(Range(zone.free), n)

\* C10 (amended): the number vehicle_availability adds for a REGULAR zone,
\* found with the run length of the first REGULAR zone and one free-list entry
\* skipped after every run, is at most the largest number of disjoint runs of
\* that length in the zone and at least half of it.
C10_CountWithinHalfOfMax ==
    (last.op = "avail" /\ last.type_ = "VAN") =>
        LET regular_zones == ZonesOf(zones, "REGULAR")
        IN \A i \in 1..Len(regular_zones) :
              LET zone == zones[regular_zones[i]]
                  n == Ceil(VehicleSize("VAN"), zones[regular_zones[1]].size)
                  c == van_regular_counts(zones)[i]
                  M == MaxPlaceable(Range(zone.free), n)
              IN c <= M /\ M <= 2 * c

\* vehicle_availability(VAN) was called with a spanning REGULAR zone where a
\* run is counted and more vans could be placed than are counted
C10_Witness ==
    /\ last.op = "avail" /\ last.type_ = "VAN"
    /\ LET regular_zones == ZonesOf(zones, "REGULAR")
       IN \E i \in 1..Len(regular_zones) :
             LET zone == zones[regular_zones[i]]
                 n == Ceil(VehicleSize("VAN"), zones[regular_zones[1]].size)
                 c == van_regular_counts(zones)[i]
             IN /\ zone.adjacent /\ n > 1
                /\ OccupiedSpots(zone) # {}
                /\ c >= 1
                /\ c < MaxPlaceable(Range(zone.free), n)

----------------------------------------------------------------------------
\* Lot.find_adjacent_free_spots, one loop iteration per step, on every
\* strictly ascending free list of a zone of MaxSpots spots

\* Spots of the scanned zone.
MaxSpots == 10

\* Largest num_spots a scan is called with.
MaxNumSpots == 3

\* Spot sizes (tenths) of the spanning zone a van is parked in: it needs 4, 3
\* or 2 spots.
SpanSizes == {8, 10, 15}

\* the list that holds the members of F in ascending order
RECURSIVE AscendingList(_)
AscendingList(F) ==
    IF F = {} THEN <<>>
    ELSE LET m == CHOOSE x \in F : \A y \in F : x <= y
         IN <<m>> \o AscendingList(F \ {m})

\* the free lists a zone of MaxSpots spots can have
FreeLists == {AscendingList(F) : F \in SUBSET (0..(MaxSpots - 1))}

\* end = last_index - (num_spots - 1)
end_of(free, num_spots) == (Len(free) - 1) - (num_spots - 1)

\* potential_adjacent_spots = [free[x] for x in range(index, index+num_spots)]
potential_adjacent_spots(free, index, num_spots) ==
    [x \in 1..num_spots |-> free[index + x]]

\* the adjacency test with the difference compared to num_spots itself
all_spots_adjacent_off_by_one(free, index, num_spots) ==
    LET spots == potential_adjacent_spots(free, index, num_spots)
        first_spot == spots[1]
        last_spot == spots[Len(spots)]
        difference_between_spots == last_spot - first_spot
    IN difference_between_spots = num_spots

\* all_spots_adjacent = (difference_between_spots+1) == num_spots
all_spots_adjacent(free, index, num_spots) ==
    LET spots == potential_adjacent_spots(free, index, num_spots)
        first_spot == spots[1]
        last_spot == spots[Len(spots)]
        difference_between_spots == last_spot - first_spot
    IN (difference_between_spots + 1) = num_spots

\* the cursor left where it is after a window that is no run
index_not_moved(index) == index

\* index += 1 after a window that is no run
index_after_miss(index) == index + 1

\* the cursor moved past the run only, spots_to_skip = num_spots
index_after_run_no_gap(index, num_spots) == index + num_spots

\* index += spots_to_skip after a run, spots_to_skip = num_spots + 1
index_after_run(index, num_spots) == index + (num_spots + 1)

\* the zone that has the free list free: every other spot holds vehicle 1
ScanZone(free, size) ==
    [type_    |-> "REGULAR",
     size     |-> size,
     adjacent |-> TRUE,
     spots    |-> [x \in 0..(MaxSpots - 1) |-> IF x \in Range(free) THEN None ELSE 1],
     free     |-> free]

NotPlaced == [called |-> FALSE, free_before |-> <<>>, num_adjacent |-> 0, spots |-> <<>>]

\* find_adjacent_free_spots has been called and is at the top of its loop
InitFind ==
    /\ NoLot
    /\ NoGen
    /\ NoZones
    /\ \E free \in FreeLists, num_spots \in 1..MaxNumSpots, first \in BOOLEAN :
          scan = [pc |-> "loop", free |-> free, num_spots |-> num_spots,
                  first |-> first, index |-> 0, free_indexes |-> <<>>]
    /\ placed = NotPlaced

\* one iteration whose window is no run
find_miss ==
    /\ scan.pc = "loop"
    /\ scan.index <= end_of(scan.free, scan.num_spots)
    /\ ~ all_spots_adjacent(scan.free, scan.index, scan.num_spots)
    /\ scan' = [scan EXCEPT !.index = index_after_miss(scan.index)]
    /\ UNCHANGED <<placed, lotVars, genVars, zonesVars>>

\* one iteration whose window is a run: with first it returns at once
find_run ==
    /\ scan.pc = "loop"
    /\ scan.index <= end_of(scan.free, scan.num_spots)
    /\ all_spots_adjacent(scan.free, scan.index, scan.num_spots)
    /\ scan' = IF scan.first
               THEN [scan EXCEPT !.free_indexes = Append(@, scan.index),
                                 !.pc = "done"]
               ELSE [scan EXCEPT !.free_indexes = Append(@, scan.index),
                                 !.index = index_after_run(scan.index, scan.num_spots)]
    /\ UNCHANGED <<placed, lotVars, genVars, zonesVars>>

\* the while condition fails: return free_indexes
find_return ==
    /\ scan.pc = "loop"
    /\ ~ (scan.index <= end_of(scan.free, scan.num_spots))
    /\ scan' = [scan EXCEPT !.pc = "done"]
    /\ UNCHANGED <<placed, lotVars, genVars, zonesVars>>

\* a new call of find_adjacent_free_spots on the free list as it is now
find_call(num_spots, first) ==
    /\ scan.pc \in {"done", "idle"}
    /\ scan' = [pc |-> "loop", free |-> scan.free, num_spots |-> num_spots,
                first |-> first, index |-> 0, free_indexes |-> <<>>]
    /\ placed' = NotPlaced
    /\ UNCHANGED <<lotVars, genVars, zonesVars>>

\* park_adjacent of a van (vehicle 2) on the zone that has this free list
park_adjacent_call(size) ==
    /\ scan.pc \in {"done", "idle"}
    /\ LET r == park_adjacent(<<ScanZone(scan.free, size)>>,
                              [t \in VehicleType |-> 0], 1, 0, 2, "VAN")
           num_adjacent == Ceil(VehicleSize("VAN"), size)
       IN /\ placed' = [called |-> TRUE, free_before |-> scan.free,
                        num_adjacent |-> num_adjacent,
                        spots |-> IF r.location = <<>> THEN <<>> ELSE r.location[3]]
          /\ scan' = [pc |-> "idle", free |-> r.zones[1].free,
                      num_spots |-> num_adjacent, first |-> TRUE,
                      index |-> 0, free_indexes |-> <<>>]
    /\ UNCHANGED <<lotVars, genVars, zonesVars>>

NextFind ==
    \/ find_miss
    \/ find_run
    \/ find_return
    \/ \E num_spots \in 1..MaxNumSpots, first \in BOOLEAN : find_call(num_spots, first)
    \/ \E size \in SpanSizes : park_adjacent_call(size)

SpecFind == InitFind /\ [][NextFind]_vars

\* the loop runs on: nothing suspends a call between two iterations
SpecFindFair ==
    /\ SpecFind
    /\ WF_vars(find_miss)
    /\ WF_vars(find_run)
    /\ WF_vars(find_return)

\* the first spots of the runs of n consecutive spots within F
RunStarts(F, n) == {x \in F : \A d \in 0..(n - 1) : x + d \in F}

Lowest(S) == CHOOSE x \in S : \A y \in S : x <= y

\* C11: with first=True the search returns a run exactly when the free list
\* holds num_spots consecutive integers, and then the run with the smallest
\* first spot; park_adjacent occupies exactly that run and takes it, and
\* nothing else, out of the free list.
C11_FirstRunIsLowest ==
    /\ (scan.pc = "done" /\ scan.first) =>
          LET S == RunStarts(Range(scan.free), scan.num_spots)
          IN IF S = {}
             THEN scan.free_indexes = <<>>
             ELSE /\ Len(scan.free_indexes) = 1
                  /\ scan.free[scan.free_indexes[1] + 1] = Lowest(S)
    /\ placed.called =>
          LET S == RunStarts(Range(placed.free_before), placed.num_adjacent)
          IN IF S = {}
             THEN placed.spots = <<>> /\ scan.free = placed.free_before
             ELSE /\ placed.spots = [i \in 1..placed.num_adjacent |-> Lowest(S) + i - 1]
                  /\ scan.free = AscendingList(Range(placed.free_before) \ Range(placed.spots))

\* the example: with spots 0,1,2 taken out of {0,1,2,4,5,6,8,9} before, the
\* next van is parked on 4,5,6 and 8,9 stay free
C11_Witness ==
    /\ placed.called
    /\ placed.free_before = <<4, 5, 6, 8, 9>>
    /\ placed.spots = <<4, 5, 6>>
    /\ scan.free = <<8, 9>>

\* C12: every vehicle in Lot.vehicles has a location that is not empty and
\* names a zone of the lot, and every spot the location lists holds that
\* vehicle.
C12_LocationsHoldTheirVehicle ==
    \A id_ \in vehicles :
        LET location == objs[id_].location
        IN /\ location # <<>>
           /\ location[3] # <<>>
           /\ location[2] + 1 \in 1..Len(ZonesOf(zones, location[1]))
           /\ \A x \in Range(location[3]) :
                 /\ x \in DOMAIN zones[ZoneAt(zones, location)].spots
                 /\ zones[ZoneAt(zones, location)].spots[x] = id_

\* after a removal the lot still holds a van across several spots and
\* another vehicle
C12_Witness ==
    /\ last.op = "remove" /\ last.result = 1
    /\ Cardinality(vehicles) >= 2
    /\ \E id_ \in vehicles : Len(objs[id_].location[3]) > 1

\* C13: vehicle_availability changes no zone, no count, not the vehicles map
\* and no Vehicle object, and called twice in a row for one type it returns
\* the same result.
C13_AvailabilityReadOnly ==
    [][ last'.op = "avail"
          => /\ zones' = zones
             /\ count' = count
             /\ vehicles' = vehicles
             /\ objs' = objs
             /\ (last.op = "avail" /\ last.type_ = last'.type_)
                   => last'.returned = last.returned ]_vars

\* the same query was made twice in a row on a lot that holds a vehicle and
\* has room for a van
C13_Witness ==
    /\ last.op = "avail" /\ last.follows = 1
    /\ last.type_ = "VAN"
    /\ last.returned > 0
    /\ vehicles # {}

\* C14: a vehicle that fits one spot of the zone it is parked in takes the
\* smallest free spot index of that zone.
C14_SingleSpotTakesLowestFree ==
    JustParked =>
        LET location == objs[last.id_].location
            k == ZoneAt(zones, location)
        IN VehicleSize(last.type_) <= zones[k].size
              => location[3] = << Lowest(Range(before.zones[k].free)) >>

\* the spot taken lies below an occupied spot: it was freed by a removal
C14_Witness ==
    /\ JustParked
    /\ LET location == objs[last.id_].location
           k == ZoneAt(zones, location)
       IN /\ VehicleSize(last.type_) <= zones[k].size
          /\ \E x \in OccupiedSpots(before.zones[k]) : location[3][1] < x
          /\ Len(before.zones[k].free) > 1

\* C15: the location of a parked vehicle that does not fit one spot of its
\* zone lists ceil(vehicle size / spot size) spots of that zone, each the
\* previous plus one, and all of them hold the vehicle.
C15_SpanningLocation ==
    \A id_ \in vehicles :
        LET location == objs[id_].location
            zone == zones[ZoneAt(zones, location)]
            size == VehicleSize(objs[id_].type_)
        IN size > zone.size =>
              /\ Len(location[3]) * zone.size >= size
              /\ (Len(location[3]) - 1) * zone.size < size
              /\ \A i \in 2..Len(location[3]) : location[3][i] = location[3][i - 1] + 1
              /\ \A x \in Range(location[3]) : zone.spots[x] = id_

\* a van lies across four spots of 0.8 (3.0 / 0.8 = 3.75) above another
\* vehicle
C15_Witness ==
    \E id_ \in vehicles :
        LET location == objs[id_].location
            zone == zones[ZoneAt(zones, location)]
        IN /\ objs[id_].type_ = "VAN"
           /\ zone.size = 8
           /\ Len(location[3]) = 4
           /\ location[3][1] > 0

\* C16 (as claimed): add_vehicle returns the parked vehicle when it made a
\* placement and None when there was no room.
C16_NoneWhenNoRoom ==
    last.op = "add" =>
        IF objs[last.id_].location = <<>>
        THEN last.returned = None
        ELSE last.returned = last.id_

\* the spots of the window of num_spots free-list entries at position p
Block(free, p, num_spots) == {free[p + x] : x \in 1..num_spots}

\* C17: every iteration of the loop of find_adjacent_free_spots moves the
\* cursor up, an iteration is made only while at least num_spots entries of
\* the free list are left at or after the cursor, the loop is left only when
\* fewer are left (or, with first, on the first run), and every call returns.
C17_ScanTerminates ==
    /\ [][ (scan.pc = "loop" /\ scan'.pc = "loop")
              => /\ scan'.index > scan.index
                 /\ Len(scan.free) - scan.index >= scan.num_spots ]_vars
    /\ [][ (scan.pc = "loop" /\ scan'.pc = "done")
              => \/ Len(scan.free) - scan.index < scan.num_spots
                 \/ scan.first /\ scan'.free_indexes # <<>> ]_vars
    /\ (scan.pc = "loop") ~> (scan.pc = "done")

\* a call with a free list shorter than num_spots has returned, the cursor
\* still at 0
C17_Witness ==
    /\ scan.pc = "done"
    /\ scan.free # <<>>
    /\ Len(scan.free) < scan.num_spots
    /\ scan.index = 0
    /\ scan.free_indexes = <<>>

\* C20: every position the search returns (or has collected so far) is the
\* start of num_spots free-list entries that are consecutive spots, and the
\* blocks of two different positions share no spot.
C20_ReturnedRunsContiguousDisjoint ==
    scan.pc \in {"loop", "done"} =>
        /\ \A i \in 1..Len(scan.free_indexes) :
              LET p == scan.free_indexes[i]
              IN /\ p + scan.num_spots <= Len(scan.free)
                 /\ \A x \in 0..(scan.num_spots - 1) :
                       scan.free[p + x + 1] = scan.free[p + 1] + x
        /\ \A i, j \in 1..Len(scan.free_indexes) :
              i # j => Block(scan.free, scan.free_indexes[i], scan.num_spots)
                         \cap Block(scan.free, scan.free_indexes[j], scan.num_spots) = {}

\* a scan of all runs has returned two runs of three out of a free list with
\* a gap
C20_Witness ==
    /\ scan.pc = "done" /\ ~ scan.first
    /\ scan.num_spots = 3
    /\ Len(scan.free_indexes) = 2
    /\ \E i \in 1..(Len(scan.free) - 1) : scan.free[i + 1] > scan.free[i] + 1

\* C21: in all-runs mode (first=False) an iteration moves the cursor by
\* num_spots + 1 when its window is a run, which it records, and by 1 when it
\* is not; so two recorded positions differ by at least num_spots + 1, and
\* the position right after a recorded run is never recorded.
C21_RunsSkipOneEntry ==
    /\ [][ (scan.pc = "loop" /\ scan'.pc = "loop" /\ ~ scan.first) =>
              IF all_spots_adjacent(scan.free, scan.index, scan.num_spots)
              THEN /\ scan'.index = scan.index + scan.num_spots + 1
                   /\ scan'.free_indexes = Append(scan.free_indexes, scan.index)
              ELSE /\ scan'.index = scan.index + 1
                   /\ scan'.free_indexes = scan.free_indexes ]_vars
    /\ [] ( (scan.pc \in {"loop", "done"} /\ ~ scan.first) =>
              \A i, j \in 1..Len(scan.free_indexes) :
                 /\ i < j => scan.free_indexes[j] - scan.free_indexes[i] >= scan.num_spots + 1
                 /\ scan.free_indexes[j] # scan.free_indexes[i] + scan.num_spots )

\* a scan of all runs has returned two runs, and the entries right after the
\* first run are a run too, which it did not return
C21_Witness ==
    /\ scan.pc = "done" /\ ~ scan.first
    /\ Len(scan.free_indexes) = 2
    /\ LET p == scan.free_indexes[1] + scan.num_spots
       IN /\ p <= end_of(scan.free, scan.num_spots)
          /\ all_spots_adjacent(scan.free, p, scan.num_spots)
          /\ scan.free_indexes[2] = p + 1


\* C22 (as claimed): vehicle_availability(t) returns more than 0 exactly when
\* add_vehicle(t), made in the same state, places the vehicle.
C22_AvailableIffPlaced ==
    last.op = "add" =>
        LET a == vehicle_availability_of(before.zones, last.type_)
        IN a.error = "none" =>
              ((a.returned > 0) <=> (objs[last.id_].location # <<>>))

\* C23 (as claimed): add_vehicle(t) made right after remove_vehicle took a
\* parked vehicle of type t out of the lot places the new vehicle.
C23_AddAfterRemovePlaces ==
    (last.op = "add" /\ last.follows # 0) => objs[last.id_].location # <<>>

\* C24: a parked vehicle is in a zone whose class is in the priority list of
\* its type, and it fits one spot of that zone or the zone supports spanning.
C24_PlacedWhereAllowed ==
    \A id_ \in vehicles :
        LET location == objs[id_].location
            zone == zones[ZoneAt(zones, location)]
        IN /\ location[1] = zone.type_
           /\ zone.type_ \in Range(Priority(objs[id_].type_))
           /\ VehicleSize(objs[id_].type_) <= zone.size \/ zone.adjacent

\* a van has just been parked in a spanning zone, after the search passed a
\* zone with free spots that are too small for it and cannot be spanned
C24_Witness ==
    /\ JustParked
    /\ last.type_ = "VAN"
    /\ LET order == SearchOrder(before.zones, last.type_)
           k == ZoneAt(zones, objs[last.id_].location)
       IN /\ zones[k].adjacent
          /\ \E i, j \in 1..Len(order) :
                /\ i < j /\ order[j].k = k
                /\ Len(before.zones[order[i].k].free) > 0
                /\ ~ before.zones[order[i].k].adjacent
                /\ VehicleSize(last.type_) > before.zones[order[i].k].size

\* C25: every occupied spot holds a vehicle that is in Lot.vehicles and whose
\* location names this zone and this spot; no spot is in the locations of two
\* parked vehicles; no spot holds a vehicle that is not parked any more.
C25_SpotsAndLocationsAgree ==
    /\ \A k \in 1..Len(zones) : \A x \in OccupiedSpots(zones[k]) :
          LET id_ == zones[k].spots[x]
          IN /\ id_ \in vehicles
             /\ ZoneAt(zones, objs[id_].location) = k
             /\ x \in Range(objs[id_].location[3])
    /\ \A a, b \in vehicles :
          (a # b /\ ZoneAt(zones, objs[a].location) = ZoneAt(zones, objs[b].location))
             => Range(objs[a].location[3]) \cap Range(objs[b].location[3]) = {}
    /\ \A id_ \in (1..Len(objs)) \ vehicles :
          \A k \in 1..Len(zones) : \A x \in DOMAIN zones[k].spots :
             zones[k].spots[x] # id_

\* a van that lay across several spots has been removed, not right after it
\* was parked, from a zone that holds another vehicle
C25_Witness ==
    /\ last.op = "remove" /\ last.result = 1
    /\ last.follows # last.id_
    /\ Len(objs[last.id_].location[3]) > 1
    /\ LET zone == zones[ZoneAt(zones, objs[last.id_].location)]
       IN /\ \A x \in Range(objs[last.id_].location[3]) : zone.spots[x] = None
          /\ OccupiedSpots(zone) # {}

\* the free spots of all zones of zs whose class is in T
FreeSpotsOfClasses(zs, T) ==
    SumSeq([k \in 1..Len(zs) |-> IF zs[k].type_ \in T THEN Len(zs[k].free) ELSE 0], 1)

\* the runs of n consecutive spots counted in the set F of free spots: the
\* lowest run, then the same on the free spots above it less the first one
RECURSIVE RunsCounted(_, _)
RunsCounted(F, n) ==
    LET S == RunStarts(F, n)
    IN IF S = {} THEN 0
       ELSE LET above == {y \in F : y > Lowest(S) + n - 1}
            IN 1 + RunsCounted(IF above = {} THEN {} ELSE above \ {Lowest(above)}, n)

\* C26: when vehicle_availability returns, then for CYCLE and CAR the number
\* of free spots of all zones of all classes of the priority list, and for
\* VAN the free spots of all LARGE zones plus, for every REGULAR zone, the
\* runs counted in it (runs of the length a van needs in the first REGULAR
\* zone, which is what the call of find_adjacent_free_spots is given).
C26_AvailabilityIsSum ==
    (last.op = "avail" /\ last.error = "none") =>
        IF last.type_ \in {"CYCLE", "CAR"}
        THEN last.returned = FreeSpotsOfClasses(zones, Range(Priority(last.type_)))
        ELSE LET regular_zones == ZonesOf(zones, "REGULAR")
                 n == Ceil(VehicleSize("VAN"), zones[regular_zones[1]].size)
             IN last.returned =
                   FreeSpotsOfClasses(zones, {"LARGE"})
                   + SumSeq([k \in 1..Len(zones) |->
                               IF zones[k].type_ = "REGULAR"
                               THEN RunsCounted(Range(zones[k].free), n) ELSE 0], 1)

\* vehicle_availability(VAN) has added a free LARGE spot and runs of two
\* REGULAR zones, one of them with an occupied spot and more free spots than
\* runs
C26_Witness ==
    /\ last.op = "avail" /\ last.type_ = "VAN" /\ last.error = "none"
    /\ FreeSpotsOfClasses(zones, {"LARGE"}) > 0
    /\ last.returned >= 3
    /\ \E k \in 1..Len(zones) :
          /\ zones[k].type_ = "REGULAR"
          /\ OccupiedSpots(zones[k]) # {}
          /\ Len(zones[k].free) > 1

\* C27 (as claimed): vehicle_availability returns a number that is not
\* negative and ends in no error, for every vehicle type and every list of
\* zones the Lot was built from.
C27_AvailabilityNeverFails ==
    last.op = "avail" => (last.error = "none" /\ last.returned >= 0)

\* C28: a parked vehicle whose size is at most the spot size of its zone has
\* a location of exactly one spot, which holds it, in a spanning zone too;
\* the call that parked it took one spot out of the free list, the first.
C28_FittingVehicleTakesOneSpot ==
    /\ \A id_ \in vehicles :
          LET location == objs[id_].location
              zone == zones[ZoneAt(zones, location)]
          IN VehicleSize(objs[id_].type_) <= zone.size
                => /\ Len(location[3]) = 1
                   /\ zone.spots[location[3][1]] = id_
                   /\ Cardinality({x \in DOMAIN zone.spots : zone.spots[x] = id_}) = 1
    /\ JustParked =>
          LET k == ZoneAt(zones, objs[last.id_].location)
          IN VehicleSize(last.type_) <= zones[k].size
                => zones[k].free = Tail(before.zones[k].free)

\* a car has just taken one spot of a spanning zone in which the spot above
\* was free as well
C28_Witness ==
    /\ JustParked
    /\ last.type_ = "CAR"
    /\ LET location == objs[last.id_].location
           k == ZoneAt(zones, location)
       IN /\ zones[k].adjacent
          /\ Len(location[3]) = 1
          /\ location[3][1] + 1 \in Range(zones[k].free)
          /\ OccupiedSpots(before.zones[k]) # {}

----------------------------------------------------------------------------
\* Generator of src/four_billion_numbers/Generator.py.  The callers of the
\* repository use generate_code() with its default save_state=True
\* (generate_code.py) and generate_codes(quantity) (test_unique.py), which
\* calls generate_code(save_state=False) quantity times and saves at the end.
\* A list of the program is a sequence here, element i at position i+1.

\* (num_hex_digits, num_sections) the Generator is built with: numbers of
\* sections that divide 16^num_hex_digits, and one (3) that does not
GenParams == {<<1, 1>>, <<1, 2>>, <<1, 4>>, <<1, 8>>, <<1, 3>>, <<2, 2>>}

\* Calls of generate_code made after all 16^num_hex_digits values are used.
ExtraCalls == 1

\* Largest quantity handed to generate_codes.
MaxQuantity == 2

\* Times a new Generator is built on the file a former one left.
MaxRestarts == 1

RECURSIVE Power(_, _)
Power(b, n) == IF n = 0 THEN 1 ELSE b * Power(b, n - 1)

\* np.arange(0, stop=num_sections)
arange(stop) == [i \in 1..stop |-> i - 1]

\* np.delete(array, index)
delete(array, index) == Pop(array, index)

\* the digits of value in base 16, most significant first
RECURSIVE HexDigits(_)
HexDigits(value) ==
    IF value < 16 THEN <<value>>
    ELSE Append(HexDigits(value \div 16), value % 16)

\* f"{value:08x}": the hexadecimal digits, padded with zeros to 8 of them
Hex08(value) ==
    LET digits == HexDigits(value)
    IN IF Len(digits) >= 8 THEN digits
       ELSE [i \in 1..(8 - Len(digits)) |-> 0] \o digits

\* Generator.__init__: the fields derived from the arguments, then the state
\* loaded from the file or, without one, created
Generator(num_hex_digits, num_sections, f) ==
    LET max_val == Power(16, num_hex_digits) - 1
        section_range == (max_val + 1) \div num_sections
    IN [pc |-> "ready",
        num_hex_digits |-> num_hex_digits,
        max_val |-> max_val,
        num_sections |-> num_sections,
        section_range |-> section_range,
        section_indexes |-> IF f # <<>> THEN f[1].section_indexes
                            ELSE arange(num_sections),
        sections |-> IF f # <<>> THEN f[1].sections
                     ELSE [i \in 1..num_sections |->
                              ((i - 1) * section_range) + ((i - 1) % section_range)]]

\* np.savez(filename, sections=..., section_indexes=...)
savez(sections, section_indexes) ==
    << [sections |-> sections, section_indexes |-> section_indexes] >>

\* generate_code with the upper end of the section taken one too high
generate_code_max_one_high(g, f, random_remaining_index, save_state) ==
    LET section_index == g.section_indexes[random_remaining_index + 1]
        current_section_value == g.sections[section_index + 1]
        section_indexes == IF Len(g.section_indexes) = 1
                           THEN arange(g.num_sections)
                           ELSE delete(g.section_indexes, random_remaining_index)
        min_section_value == section_index * g.section_range
        max_section_value == (section_index + 1) * g.section_range
        incremented == g.sections[section_index + 1] + 1
        sections == [g.sections EXCEPT ![section_index + 1] =
                        IF incremented > max_section_value
                        THEN min_section_value ELSE incremented]
    IN [gen |-> [g EXCEPT !.section_indexes = section_indexes, !.sections = sections],
        file |-> IF save_state THEN savez(sections, section_indexes) ELSE f,
        code |-> Hex08(current_section_value),
        section_index |-> section_index]

\* generate_code writing the file before it increments the section
generate_code_saves_early(g, f, random_remaining_index, save_state) ==
    LET section_index == g.section_indexes[random_remaining_index + 1]
        current_section_value == g.sections[section_index + 1]
        section_indexes == IF Len(g.section_indexes) = 1
                           THEN arange(g.num_sections)
                           ELSE delete(g.section_indexes, random_remaining_index)
        min_section_value == section_index * g.section_range
        max_section_value == ((section_index + 1) * g.section_range) - 1
        incremented == g.sections[section_index + 1] + 1
        sections == [g.sections EXCEPT ![section_index + 1] =
                        IF incremented > max_section_value
                        THEN min_section_value ELSE incremented]
    IN [gen |-> [g EXCEPT !.section_indexes = section_indexes, !.sections = sections],
        file |-> IF save_state THEN savez(g.sections, section_indexes) ELSE f,
        code |-> Hex08(current_section_value),
        section_index |-> section_index]

\* generate_code setting a section that passed its upper end back to zero
generate_code_wraps_to_zero(g, f, random_remaining_index, save_state) ==
    LET section_index == g.section_indexes[random_remaining_index + 1]
        current_section_value == g.sections[section_index + 1]
        section_indexes == IF Len(g.section_indexes) = 1
                           THEN arange(g.num_sections)
                           ELSE delete(g.section_indexes, random_remaining_index)
        max_section_value == ((section_index + 1) * g.section_range) - 1
        incremented == g.sections[section_index + 1] + 1
        sections == [g.sections EXCEPT ![section_index + 1] =
                        IF incremented > max_section_value
                        THEN 0 ELSE incremented]
    IN [gen |-> [g EXCEPT !.section_indexes = section_indexes, !.sections = sections],
        file |-> IF save_state THEN savez(sections, section_indexes) ELSE f,
        code |-> Hex08(current_section_value),
        section_index |-> section_index]

\* generate_code leaving the index it used in section_indexes
generate_code_keeps_index(g, f, random_remaining_index, save_state) ==
    LET section_index == g.section_indexes[random_remaining_index + 1]
        current_section_value == g.sections[section_index + 1]
        section_indexes == IF Len(g.section_indexes) = 1
                           THEN arange(g.num_sections)
                           ELSE g.section_indexes
        min_section_value == section_index * g.section_range
        max_section_value == ((section_index + 1) * g.section_range) - 1
        incremented == g.sections[section_index + 1] + 1
        sections == [g.sections EXCEPT ![section_index + 1] =
                        IF incremented > max_section_value
                        THEN min_section_value ELSE incremented]
    IN [gen |-> [g EXCEPT !.section_indexes = section_indexes, !.sections = sections],
        file |-> IF save_state THEN savez(sections, section_indexes) ELSE f,
        code |-> Hex08(current_section_value),
        section_index |-> section_index]

\* Generator.generate_code with random.randint having returned
\* random_remaining_index: the new fields, the file, the code returned and
\* the section index that was drawn
generate_code_of(g, f, random_remaining_index, save_state) ==
    LET section_index == g.section_indexes[random_remaining_index + 1]
        current_section_value == g.sections[section_index + 1]
        section_indexes == IF Len(g.section_indexes) = 1
                           THEN arange(g.num_sections)
                           ELSE delete(g.section_indexes, random_remaining_index)
        min_section_value == section_index * g.section_range
        max_section_value == ((section_index + 1) * g.section_range) - 1
        incremented == g.sections[section_index + 1] + 1
        sections == [g.sections EXCEPT ![section_index + 1] =
                        IF incremented > max_section_value
                        THEN min_section_value ELSE incremented]
    IN [gen |-> [g EXCEPT !.section_indexes = section_indexes, !.sections = sections],
        file |-> IF save_state THEN savez(sections, section_indexes) ELSE f,
        code |-> Hex08(current_section_value),
        section_index |-> section_index]

\* Generator.generate_codes: the for loop, randint returning picks[i] in the
\* i-th call; codes is the list of the codes so far
RECURSIVE CodesLoop(_, _, _, _, _)
CodesLoop(g, f, picks, i, codes) ==
    IF i > Len(picks) THEN [gen |-> g, file |-> f, codes |-> codes]
    ELSE LET r == generate_code_of(g, f, picks[i], FALSE)
         IN CodesLoop(r.gen, r.file, picks, i + 1, Append(codes, r.code))

\* the section indexes the calls of the for loop draw, in the order of the
\* calls
RECURSIVE IndexesLoop(_, _, _)
IndexesLoop(g, picks, i) ==
    IF i > Len(picks) THEN <<>>
    ELSE LET r == generate_code_of(g, <<>>, picks[i], FALSE)
         IN <<r.section_index>> \o IndexesLoop(r.gen, picks, i + 1)

\* the record of the draws: how often each section index has been drawn
\* since the number of calls was last a multiple of num_sections
RECURSIVE Tally(_, _, _, _, _)
Tally(drawn, calls, num_sections, indexes, i) ==
    IF i > Len(indexes) THEN drawn
    ELSE LET base == IF calls % num_sections = 0
                     THEN [x \in DOMAIN drawn |-> 0] ELSE drawn
         IN Tally([base EXCEPT ![indexes[i]] = @ + 1], calls + 1, num_sections,
                  indexes, i + 1)

\* randint(0, len(section_indexes)-1) can return picks[i] in the i-th call
RECURSIVE CanPick(_, _, _)
CanPick(g, picks, i) ==
    IF i > Len(picks) THEN TRUE
    ELSE /\ picks[i] \in 0..(Len(g.section_indexes) - 1)
         /\ CanPick(generate_code_of(g, <<>>, picks[i], FALSE).gen, picks, i + 1)

\* Generator.generate_codes(quantity)
generate_codes_of(g, f, picks) ==
    LET r == CodesLoop(g, f, picks, 1, <<>>)
    IN [gen |-> r.gen,
        file |-> savez(r.gen.sections, r.gen.section_indexes),
        codes |-> r.codes]

\* how many values there are, and how many calls a behaviour makes at most
NumCodes(g) == g.max_val + 1

MaxCalls(g) == NumCodes(g) + ExtraCalls

\* Generator(num_hex_digits, num_sections) with no file of a former run
InitGen ==
    /\ NoLot
    /\ NoFind
    /\ NoZones
    /\ file = <<>>
    /\ \E p \in GenParams : gen = Generator(p[1], p[2], <<>>)
    /\ emitted = [calls |-> 0, codes |-> {}, restarts |-> 0, op |-> "init",
                  drawn |-> [x \in 0..(gen.num_sections - 1) |-> 0]]

\* gen.generate_code()
generate_code ==
    /\ emitted.calls < MaxCalls(gen)
    /\ \E random_remaining_index \in 0..(Len(gen.section_indexes) - 1) :
          LET r == generate_code_of(gen, file, random_remaining_index, TRUE)
          IN /\ gen' = r.gen
             /\ file' = r.file
             /\ emitted' = [emitted EXCEPT !.calls = @ + 1,
                                           !.codes = @ \cup {r.code},
                                           !.op = "generate_code",
                                           !.drawn = Tally(@, emitted.calls,
                                                           gen.num_sections,
                                                           <<r.section_index>>, 1)]
    /\ UNCHANGED <<lotVars, findVars, zonesVars>>

\* gen.generate_codes(quantity)
generate_codes(quantity) ==
    /\ emitted.calls + quantity <= MaxCalls(gen)
    /\ \E picks \in [1..quantity -> 0..(gen.num_sections - 1)] :
          /\ CanPick(gen, picks, 1)
          /\ LET r == generate_codes_of(gen, file, picks)
             IN /\ gen' = r.gen
                /\ file' = r.file
                /\ emitted' = [emitted EXCEPT !.calls = @ + quantity,
                                              !.codes = @ \cup Range(r.codes),
                                              !.op = "generate_codes",
                                              !.drawn = Tally(@, emitted.calls,
                                                              gen.num_sections,
                                                              IndexesLoop(gen, picks, 1), 1)]
    /\ UNCHANGED <<lotVars, findVars, zonesVars>>

\* the program ends and is run again: a new Generator with the same
\* arguments, which loads the file when there is one
restart ==
    /\ emitted.restarts < MaxRestarts
    /\ gen' = Generator(gen.num_hex_digits, gen.num_sections, file)
    /\ emitted' = [emitted EXCEPT !.restarts = @ + 1, !.op = "restart"]
    /\ UNCHANGED <<file, lotVars, findVars, zonesVars>>

NextGen ==
    \/ generate_code
    \/ \E quantity \in 1..MaxQuantity : generate_codes(quantity)
    \/ restart

SpecGen == InitGen /\ [][NextGen]_vars

\* num_sections divides 16^num_hex_digits
Divides(g) == NumCodes(g) % g.num_sections = 0

\* C18: from fresh state and with num_sections dividing 16^num_hex_digits,
\* the first 16^num_hex_digits codes returned are pairwise distinct, whatever
\* the random choices, and so are all the codes there are.
C18_FirstCodesDistinct ==
    (emitted.restarts = 0 /\ Divides(gen) /\ emitted.calls <= NumCodes(gen)) =>
        /\ Cardinality(emitted.codes) = emitted.calls
        /\ emitted.calls = NumCodes(gen)
              => emitted.codes = {Hex08(value) : value \in 0..gen.max_val}

\* all 256 codes of two hex digits have been returned by one Generator
C18_Witness ==
    /\ emitted.restarts = 0
    /\ gen.num_hex_digits = 2
    /\ emitted.calls = NumCodes(gen)
    /\ Cardinality(emitted.codes) = 256

\* C19: with every code produced by generate_code() (save_state=True) or
\* generate_codes, the file holds the sections and section_indexes of the
\* Generator after every call, and the codes returned before and after a
\* restart are together pairwise distinct until 16^num_hex_digits codes have
\* been returned.
C19_UniqueAcrossRestart ==
    Divides(gen) =>
        /\ emitted.calls > 0 => file = savez(gen.sections, gen.section_indexes)
        /\ emitted.calls <= NumCodes(gen) => Cardinality(emitted.codes) = emitted.calls

\* a Generator built on the file of a former one, which had returned some
\* codes, has returned the rest of the 16 codes of one hex digit
C19_Witness ==
    /\ emitted.restarts = 1
    /\ emitted.op = "generate_code"
    /\ gen.num_sections = 4
    /\ emitted.calls = NumCodes(gen)
    /\ Cardinality(emitted.codes) = 16

\* the section indexes not drawn since the number of calls was last a
\* multiple of num_sections, in ascending order
NotDrawn(g, drawn, calls) ==
    IF calls % g.num_sections = 0 THEN arange(g.num_sections)
    ELSE LET rest == {x \in DOMAIN drawn : drawn[x] = 0}
             Below(x) == Cardinality({y \in rest : y < x})
         IN [i \in 1..Cardinality(rest) |-> CHOOSE x \in rest : Below(x) = i - 1]

\* C32: section_indexes is never empty when generate_code is called; within
\* every block of num_sections consecutive calls no section index is drawn
\* twice and, the block complete, every index has been drawn once;
\* section_indexes holds the indexes the block has not drawn yet, and a call
\* leaves it holding all sections exactly when it used its last entry.
C32_EveryBlockDrawsEachIndexOnce ==
    /\ [](gen.pc = "ready" =>
            /\ Len(gen.section_indexes) >= 1
            /\ \A x \in DOMAIN emitted.drawn : emitted.drawn[x] <= 1
            /\ (emitted.calls > 0 /\ emitted.calls % gen.num_sections = 0)
                  => \A x \in DOMAIN emitted.drawn : emitted.drawn[x] = 1
            /\ gen.section_indexes = NotDrawn(gen, emitted.drawn, emitted.calls))
    /\ [][emitted'.calls = emitted.calls + 1 =>
            ((gen'.section_indexes = arange(gen.num_sections))
                <=> (Len(gen.section_indexes) = 1))]_vars

\* the second block of four draws is complete, the last of them made by a
\* Generator built on the file of a former one
C32_Witness ==
    /\ gen.pc = "ready"
    /\ gen.num_sections = 4
    /\ emitted.calls = 8
    /\ emitted.restarts = 1
    /\ emitted.op = "generate_code"
    /\ \A x \in DOMAIN emitted.drawn : emitted.drawn[x] = 1
    /\ gen.section_indexes = arange(4)

\* the number a string of hexadecimal digits stands for
RECURSIVE HexValue(_)
HexValue(digits) ==
    IF digits = <<>> THEN 0
    ELSE 16 * HexValue(SubSeq(digits, 1, Len(digits) - 1)) + digits[Len(digits)]

\* the lowest and the highest value of section i (0-based)
SectionMin(g, i) == i * g.section_range

SectionMax(g, i) == ((i + 1) * g.section_range) - 1

\* C33: with num_sections dividing 16^num_hex_digits, the counter of section
\* i starts at i*section_range + i mod section_range and stays within
\* [i*section_range, (i+1)*section_range - 1]; a call adds one to the counter
\* of one section or, when it stood at the section maximum, sets it to the
\* section minimum; every code returned is a number of
\* [0, 16^num_hex_digits - 1]; and after exactly 16^num_hex_digits calls
\* sections and section_indexes are what they were at the start.
C33_SectionsStayInRange ==
    /\ []((gen.pc = "ready" /\ Divides(gen)) =>
            /\ emitted.calls = 0 =>
                  \A i \in 0..(gen.num_sections - 1) :
                      gen.sections[i + 1] = SectionMin(gen, i) + (i % gen.section_range)
            /\ \A i \in 0..(gen.num_sections - 1) :
                  gen.sections[i + 1] \in SectionMin(gen, i)..SectionMax(gen, i)
            /\ \A code \in emitted.codes : HexValue(code) \in 0..gen.max_val
            /\ emitted.calls = NumCodes(gen) =>
                  /\ \A i \in 0..(gen.num_sections - 1) :
                        gen.sections[i + 1] = SectionMin(gen, i) + (i % gen.section_range)
                  /\ gen.section_indexes = arange(gen.num_sections))
    /\ [][(Divides(gen) /\ emitted'.calls = emitted.calls + 1) =>
            \E i \in 0..(gen.num_sections - 1) :
                /\ gen'.sections[i + 1] =
                      IF gen.sections[i + 1] = SectionMax(gen, i)
                      THEN SectionMin(gen, i) ELSE gen.sections[i + 1] + 1
                /\ \A j \in 0..(gen.num_sections - 1) :
                      j # i => gen'.sections[j + 1] = gen.sections[j + 1]]_vars

\* sixteen calls on eight sections of two values each: every section has
\* passed its maximum, and the sections stand where they started
C33_Witness ==
    /\ gen.pc = "ready"
    /\ gen.num_sections = 8
    /\ emitted.calls = NumCodes(gen)
    /\ gen.sections = <<0, 3, 4, 7, 8, 11, 12, 15>>
    /\ gen.section_indexes = arange(8)
    /\ {HexValue(code) : code \in emitted.codes} = 0..15

----------------------------------------------------------------------------
\* The Lot of src/parking_lot/zones.py: four fixed zones, a van on one LARGE
\* spot or on three REGULAR spots.  A Vehicle has no location here: the spots
\* hold the vehicles, and a vehicle is removed by naming a zone and a spot.

\* Vehicle objects parked in one behaviour.
MaxParked == 3

\* (num_cycles, num_compact, num_regular, num_large) handed to Lot(...)
LotSizes == {<<1, 1, 4, 1>>, <<0, 0, 5, 0>>, <<0, 1, 3, 1>>}

ZoneNames == {"cycles", "compact", "regular", "large"}

\* zones.py Zone.__init__
zones_Zone(type_, num_spots) ==
    [type_     |-> type_,
     spots     |-> [x \in 0..(num_spots - 1) |-> None],
     free      |-> [x \in 1..num_spots |-> x - 1],
     available |-> num_spots]

\* zones.py Lot.__init__
zones_Lot(num_cycles, num_compact, num_regular, num_large) ==
    [cycles  |-> zones_Zone("CYCLE", num_cycles),
     compact |-> zones_Zone("COMPACT", num_compact),
     regular |-> zones_Zone("REGULAR", num_regular),
     large   |-> zones_Zone("LARGE", num_large),
     parked  |-> [t \in VehicleType |-> 0]]

\* the element a Python list of length n reads or writes at index i: a
\* negative index counts from the end
PyIndex(n, i) == IF i < 0 THEN n + i ELSE i

\* zones.py Lot.add_vehicle_in_zone
add_vehicle_in_zone(lot, zone, id_, type_) ==
    LET first_free_spot == lot[zone].free[1]
        n == Cardinality(DOMAIN lot[zone].spots)
    IN [lot EXCEPT ![zone].free = Pop(@, 0),
                   ![zone].spots[PyIndex(n, first_free_spot)] = id_,
                   !.parked[type_] = @ + 1]

\* zones.py Lot.find_van_spots_in_regular_zone: the while loop
RECURSIVE FindVanLoop(_, _, _)
FindVanLoop(spots, index, free_indexes) ==
    LET last_index == Cardinality(DOMAIN spots) - 1
        end == last_index - 1
    IN IF index <= end
       THEN LET left == spots[index - 1] = None
                center == spots[index] = None
                right == spots[index + 1] = None
            IN IF left /\ center /\ right
               THEN FindVanLoop(spots, index + 3, Append(free_indexes, index))
               ELSE IF ~ right THEN FindVanLoop(spots, index + 3, free_indexes)
               ELSE IF ~ center THEN FindVanLoop(spots, index + 2, free_indexes)
               ELSE FindVanLoop(spots, index + 1, free_indexes)
       ELSE free_indexes

\* zones.py Lot.find_van_spots_in_regular_zone
find_van_spots_in_regular_zone(spots) == FindVanLoop(spots, 1, <<>>)

\* zones.py Lot.add_van_in_regular: the while loop over the free list, which
\* pops three entries where it finds left; reading or popping past the end
\* of the list raises IndexError
RECURSIVE RemoveLoop(_, _, _)
RemoveLoop(free, free_index_to_check, left) ==
    IF free_index_to_check >= Len(free)
    THEN [free |-> free, error |-> "IndexError"]
    ELSE IF free[free_index_to_check + 1] = left
         THEN IF Len(free) - free_index_to_check >= 3
              THEN [free |-> SubSeq(free, 1, free_index_to_check)
                             \o SubSeq(free, free_index_to_check + 4, Len(free)),
                    error |-> "none"]
              ELSE [free |-> SubSeq(free, 1, free_index_to_check),
                    error |-> "IndexError"]
         ELSE RemoveLoop(free, free_index_to_check + 1, left)

\* zones.py Lot.add_van_in_regular
add_van_in_regular(lot, id_, spot_index) ==
    LET center == spot_index
        left == center - 1
        right == center + 1
        r == RemoveLoop(lot.regular.free, 0, left)
    IN [lot |-> [lot EXCEPT !.regular.spots[left] = id_,
                            !.regular.spots[center] = id_,
                            !.regular.spots[right] = id_,
                            !.parked["VAN"] = @ + 1,
                            !.regular.free = r.free],
        error |-> r.error]

\* the first of the zones, in the order given, that has a free spot
FirstWithFree(lot, order) ==
    LET with_free == {i \in 1..Len(order) : Len(lot[order[i]].free) > 0}
    IN IF with_free = {} THEN "none"
       ELSE order[CHOOSE i \in with_free : \A j \in with_free : i <= j]

\* zones.py Lot.add_motorcycle and Lot.add_car: the if/elif chain over the
\* zones in the order of the type
add_in_first_zone(lot, id_, type_, order) ==
    LET zone == FirstWithFree(lot, order)
    IN IF zone = "none"
       THEN [lot |-> lot, returned |-> None, error |-> "none"]
       ELSE [lot |-> add_vehicle_in_zone(lot, zone, id_, type_),
             returned |-> id_, error |-> "none"]

add_motorcycle(lot, id_) ==
    add_in_first_zone(lot, id_, "CYCLE", <<"cycles", "compact", "regular", "large">>)

add_car(lot, id_) ==
    add_in_first_zone(lot, id_, "CAR", <<"compact", "regular", "large">>)

\* zones.py Lot.add_van
add_van(lot, id_) ==
    IF Len(lot.large.free) > 0
    THEN [lot |-> add_vehicle_in_zone(lot, "large", id_, "VAN"),
          returned |-> id_, error |-> "none"]
    ELSE LET free_van_regular_spots == find_van_spots_in_regular_zone(lot.regular.spots)
         IN IF Len(free_van_regular_spots) > 0
            THEN LET r == add_van_in_regular(lot, id_, free_van_regular_spots[1])
                 IN [lot |-> r.lot,
                     returned |-> IF r.error = "none" THEN id_ ELSE None,
                     error |-> r.error]
            ELSE [lot |-> lot, returned |-> None, error |-> "none"]

\* Lot(num_cycles, num_compact, num_regular, num_large); no call made yet
InitZones ==
    /\ NoLot
    /\ NoFind
    /\ NoGen
    /\ \E n \in LotSizes : zlot = zones_Lot(n[1], n[2], n[3], n[4])
    /\ zobjs = <<>>
    /\ zlast = [op |-> "init", type_ |-> "none", zone |-> "none", spot_index |-> 0,
                returned |-> None, error |-> "none", before |-> zlot]

\* zones.py Lot.add_vehicle(type_); a vehicle that is not parked is dropped
zones_Lot_add_vehicle(type_) ==
    /\ Len(zobjs) < MaxParked
    /\ LET id_ == Len(zobjs) + 1
           r == CASE type_ = "CYCLE" -> add_motorcycle(zlot, id_)
                  [] type_ = "CAR"   -> add_car(zlot, id_)
                  [] type_ = "VAN"   -> add_van(zlot, id_)
       IN /\ zlot' = r.lot
          /\ zobjs' = IF r.lot = zlot THEN zobjs ELSE Append(zobjs, type_)
          /\ zlast' = [op |-> "add", type_ |-> type_, zone |-> "none", spot_index |-> 0,
                       returned |-> r.returned, error |-> r.error, before |-> zlot]

\* add_vehicle called on the Lot of zones.py alone
zones_add_vehicle(type_) ==
    /\ zones_Lot_add_vehicle(type_)
    /\ UNCHANGED <<lotVars, findVars, genVars>>

\* zones.py Lot.vehicle_availability: the number it returns
zones_vehicle_availability_of(lot, type_) ==
    LET cycles == Len(lot.cycles.free)
        compact == Len(lot.compact.free)
        regular == Len(lot.regular.free)
        large == Len(lot.large.free)
    IN CASE type_ = "CYCLE" -> cycles + compact + regular + large
         [] type_ = "CAR"   -> compact + regular + large
         [] type_ = "VAN"   ->
              LET num_van_spots_in_regular ==
                      Len(find_van_spots_in_regular_zone(lot.regular.spots))
              IN large + num_van_spots_in_regular

\* zones.py Lot.vehicle_availability(type_)
zones_Lot_vehicle_availability(type_) ==
    /\ zlast' = [op |-> "avail", type_ |-> type_, zone |-> "none", spot_index |-> 0,
                 returned |-> zones_vehicle_availability_of(zlot, type_),
                 error |-> "none", before |-> zlot]
    /\ UNCHANGED <<zlot, zobjs>>

\* vehicle_availability called on the Lot of zones.py alone
zones_vehicle_availability(type_) ==
    /\ zones_Lot_vehicle_availability(type_)
    /\ UNCHANGED <<lotVars, findVars, genVars>>

\* zones.py Lot.num_parked_vehicle
zones_num_parked_vehicle(lot, type_) == lot.parked[type_]

\* zones.py Lot.remove_vehicle_from_zone_at_spot, the branch of a van in the
\* REGULAR zone: spot_index is taken for the middle one of its three spots;
\* the assignment to spots[right] raises IndexError past the end of the list
remove_van_from_regular(zone, spot_index) ==
    LET n == Cardinality(DOMAIN zone.spots)
        left == spot_index - 1
        center == spot_index
        right == spot_index + 1
    IN IF right >= n
       THEN [zone |-> [zone EXCEPT !.spots[PyIndex(n, left)] = None,
                                   !.spots[center] = None],
             error |-> "IndexError"]
       ELSE [zone |-> [zone EXCEPT !.spots[PyIndex(n, left)] = None,
                                   !.spots[center] = None,
                                   !.spots[right] = None,
                                   !.free = Insort(Insort(Insort(@, left), center), right)],
             error |-> "none"]

\* zones.py Lot.remove_vehicle_from_zone_at_spot(zone, spot_index) with one of
\* the zones of the lot and an index of its spots list
remove_vehicle_from_zone_at_spot(zone, spot_index) ==
    /\ spot_index \in DOMAIN zlot[zone].spots
    /\ LET vehicle == zlot[zone].spots[spot_index]
       IN IF vehicle # None
          THEN IF zobjs[vehicle] = "VAN" /\ zlot[zone].type_ = "REGULAR"
               THEN LET r == remove_van_from_regular(zlot[zone], spot_index)
                    IN /\ zlot' = IF r.error = "none"
                                  THEN [zlot EXCEPT ![zone] = r.zone,
                                                    !.parked["VAN"] = @ - 1]
                                  ELSE [zlot EXCEPT ![zone] = r.zone]
                       /\ zlast' = [op |-> "remove", type_ |-> "VAN", zone |-> zone,
                                    spot_index |-> spot_index,
                                    returned |-> IF r.error = "none" THEN vehicle ELSE None,
                                    error |-> r.error, before |-> zlot]
               ELSE /\ zlot' = [zlot EXCEPT ![zone].spots[spot_index] = None,
                                            ![zone].free = Insort(@, spot_index),
                                            !.parked[zobjs[vehicle]] = @ - 1]
                    /\ zlast' = [op |-> "remove", type_ |-> zobjs[vehicle], zone |-> zone,
                                 spot_index |-> spot_index, returned |-> vehicle,
                                 error |-> "none", before |-> zlot]
          ELSE /\ zlot' = zlot
               /\ zlast' = [op |-> "remove", type_ |-> "none", zone |-> zone,
                            spot_index |-> spot_index, returned |-> None,
                            error |-> "none", before |-> zlot]
    /\ UNCHANGED <<zobjs, lotVars, findVars, genVars>>

NextZones ==
    \/ \E type_ \in VehicleType : zones_add_vehicle(type_)
    \/ \E type_ \in VehicleType : zones_vehicle_availability(type_)
    \/ \E zone \in ZoneNames : \E spot_index \in DOMAIN zlot[zone].spots :
          remove_vehicle_from_zone_at_spot(zone, spot_index)

SpecZones == InitZones /\ [][NextZones]_vars

\* C29 (as claimed): in the zones.py Lot every zone's free list is strictly
\* ascending and holds exactly the indices of the empty spots, and a removal
\* changes only spots that held the vehicle it removes.
C29_ZonesFreeListsAndRemovals ==
    /\ \A zone \in ZoneNames :
          /\ \A i, j \in 1..Len(zlot[zone].free) :
                i < j => zlot[zone].free[i] < zlot[zone].free[j]
          /\ Range(zlot[zone].free) = EmptySpots(zlot[zone])
    /\ zlast.op = "remove" =>
          \A zone \in ZoneNames : \A x \in DOMAIN zlot[zone].spots :
             zlot[zone].spots[x] # zlast.before[zone].spots[x]
                => /\ zone = zlast.zone
                   /\ zlot[zone].spots[x] = None
                   /\ zlast.before[zone].spots[x]
                        = zlast.before[zone].spots[zlast.spot_index]

\* the first spots of three consecutive empty spots
VanRuns(spots) ==
    {x \in DOMAIN spots :
        /\ x + 2 \in DOMAIN spots
        /\ \A d \in 0..2 : spots[x + d] = None}

\* C30 (as claimed): add_van ends without an error (the loop over the free
\* list ends by finding the spots); it returns None exactly when LARGE has no
\* free spot and REGULAR has no three consecutive empty spots, and changes
\* nothing then; with a free LARGE spot the van is put on an empty LARGE spot
\* and REGULAR is left as it is; otherwise it is put on the lowest three
\* consecutive empty REGULAR spots and no other spot changes.
C30_AddVan ==
    (zlast.op = "add" /\ zlast.type_ = "VAN") =>
        LET b == zlast.before
            runs == VanRuns(b.regular.spots)
        IN /\ zlast.error = "none"
           /\ (zlast.returned = None) <=> (b.large.free = <<>> /\ runs = {})
           /\ zlast.returned = None => zlot = b
           /\ b.large.free # <<>> =>
                 /\ zlot.regular = b.regular
                 /\ \E x \in DOMAIN b.large.spots :
                       /\ b.large.spots[x] = None
                       /\ zlot.large.spots = [b.large.spots EXCEPT ![x] = zlast.returned]
           /\ (b.large.free = <<>> /\ runs # {}) =>
                 LET x == Lowest(runs)
                 IN /\ zlot.regular.spots =
                          [y \in DOMAIN b.regular.spots |->
                              IF y \in x..(x + 2) THEN zlast.returned
                              ELSE b.regular.spots[y]]
                    /\ zlot.large = b.large

----------------------------------------------------------------------------
\* The two Lot classes side by side: the Lot of zones.py and the Lot of
\* parking.py built from one CYCLE, one COMPACT, one spanning REGULAR and one
\* LARGE zone with the same spot counts, given the same calls.

\* (num_cycles, num_compact, num_regular, num_large) of both lots
PairSizes == {<<1, 1, 4, 1>>, <<0, 1, 3, 1>>, <<1, 1, 6, 1>>}

\* the zone list of parking.py __main__ with the spot counts n
PairZones(n) ==
    << Zone("CYCLE", 3, n[1], FALSE), Zone("COMPACT", 8, n[2], FALSE),
       Zone("REGULAR", 10, n[3], TRUE), Zone("LARGE", 30, n[4], FALSE) >>

\* the attribute of the zones.py Lot that holds the zone of each place of
\* the zone list
PairNames == <<"cycles", "compact", "regular", "large">>

\* both constructors with the same spot counts; no call made yet
InitPair ==
    /\ \E n \in PairSizes :
          /\ zones = PairZones(n)
          /\ zlot = zones_Lot(n[1], n[2], n[3], n[4])
    /\ count = [t \in VehicleType |-> 0]
    /\ vehicles = {}
    /\ objs = <<>>
    /\ last = [op |-> "init", type_ |-> "none", id_ |-> 0, result |-> 0,
               returned |-> 0, error |-> "none", follows |-> 0]
    /\ before = [zones |-> zones, count |-> count, vehicles |-> vehicles]
    /\ zobjs = <<>>
    /\ zlast = [op |-> "init", type_ |-> "none", zone |-> "none", spot_index |-> 0,
                returned |-> None, error |-> "none", before |-> zlot]
    /\ NoFind
    /\ NoGen

\* add_vehicle(type_) called on both lots
pair_add_vehicle(type_) ==
    /\ Lot_add_vehicle(type_)
    /\ zones_Lot_add_vehicle(type_)
    /\ UNCHANGED <<findVars, genVars>>

\* vehicle_availability(type_) called on both lots
pair_vehicle_availability(type_) ==
    /\ Lot_vehicle_availability(type_)
    /\ zones_Lot_vehicle_availability(type_)
    /\ UNCHANGED <<findVars, genVars>>

NextPair ==
    \/ \E type_ \in VehicleType : pair_add_vehicle(type_)
    \/ \E type_ \in VehicleType : pair_vehicle_availability(type_)

SpecPair == InitPair /\ [][NextPair]_vars

\* what zone_spots_string shows of a spot: empty, or the type of the vehicle
\* on it
ShownOfLot(k, x) ==
    IF zones[k].spots[x] = None THEN "O" ELSE objs[zones[k].spots[x]].type_

ShownOfZonesLot(k, x) ==
    IF zlot[PairNames[k]].spots[x] = None THEN "O"
    ELSE zobjs[zlot[PairNames[k]].spots[x]]

\* both lots show the same occupancy on every spot of every zone
SameOccupancy ==
    \A k \in 1..Len(zones) :
        /\ DOMAIN zones[k].spots = DOMAIN zlot[PairNames[k]].spots
        /\ \A x \in DOMAIN zones[k].spots : ShownOfLot(k, x) = ShownOfZonesLot(k, x)

\* both lots return the same num_parked_vehicle for every type
SameNumParked ==
    \A t \in VehicleType : num_parked_vehicle(t) = zones_num_parked_vehicle(zlot, t)

\* both lots return the same vehicle_availability for every type
SameAvailability ==
    \A t \in VehicleType :
        /\ vehicle_availability_of(zones, t).error = "none"
        /\ vehicle_availability_of(zones, t).returned
              = zones_vehicle_availability_of(zlot, t)

\* C31 (as claimed): after the same sequence of add_vehicle calls the Lot of
\* zones.py and the Lot of parking.py with the same spot counts show the same
\* occupancy on every spot of every zone and return the same
\* num_parked_vehicle and the same vehicle_availability for every type.
C31_LotsEquivalent ==
    /\ SameOccupancy
    /\ SameNumParked
    /\ SameAvailability

====
